---- MODULE Spec2Model ----
(***************************************************************************)
(* Behold WhatsApp Shopify Agent: the message-processing orchestration of  *)
(* src/behold_agent/main.py.  Each in-flight POST /process-whatsapp-message*)
(* request is one asyncio task; a task keeps the event loop between two    *)
(* awaited points and releases it only where the code awaits.              *)
(***************************************************************************)
EXTENDS Integers, Sequences, FiniteSets, TLC

\* ------------------------------------------------------------------ bounds
\* Longest primary event stream the environment delivers for one request.
MaxEvents == 3

\* Request tasks (one per connection) and the event loop's idle marker.
Tasks == {"t1", "t2"}
NoTask == "none"
\* The connection whose requests Spec follows, one request after another.
Serial == {"t1"}

\* ------------------------------------------------------------ Python values
\* A Python value is modelled by its type and the text str() gives for it.
PyNone == [type |-> "none", s |-> "None"]
PyStr(x) == [type |-> "str", s |-> x]
PyInt(x) == [type |-> "int", s |-> x]
\* Marker of a key that the JSON object does not carry.
Missing == [type |-> "missing", s |-> ""]

\* Python truthiness: "", 0 and None are falsy.
Truthy(v) ==
    CASE v.type = "str" -> v.s # ""
      [] v.type = "int" -> v.s # "0"
      [] OTHER -> FALSE

\* dict.get(key): None for an absent key.
Get(d, key) == IF d[key].type = "missing" THEN PyNone ELSE d[key]

\* f-string interpolation "{v}": str(v).
Format(v) == v.s

\* ------------------------------------------------------------------ inputs
UserIds == {Missing, PyStr(""), PyStr("u1")}
Messages == {Missing, PyNone, PyStr(""), PyStr("hi"),
             PyStr("What products do you have?"), PyInt("7")}
Bodies == [kind : {"object"}, user_id : UserIds, message : Messages]
            \cup {[kind |-> "not_object", user_id |-> Missing, message |-> Missing]}
NoBody == [kind |-> "none", user_id |-> Missing, message |-> Missing]

\* Events of the primary backend's stream: without a text attribute, with an
\* empty text, with a text fragment, or with a truthy text that is no string.
NoTextEvent == [has_text |-> FALSE, text |-> PyNone]
TextEvent(v) == [has_text |-> TRUE, text |-> v]
Events == {NoTextEvent, TextEvent(PyStr("")), TextEvent(PyStr("Hello, ")),
           TextEvent(PyStr("world!")), TextEvent(PyInt("5"))}

\* response.text of the secondary backend: text, empty text or None.
SecondaryTexts == {PyStr("We sell mugs."), PyStr(""), PyNone}

\* GOOGLE_API_KEY in the process environment: unset, empty or set.
ApiKeys == {PyNone, PyStr(""), PyStr("key-1")}

VARIABLES
    agent_available,  \* module flag, lines 16-23
    root_agent,       \* "agent" or "None", lines 17, 22
    api_key_env,      \* os.getenv("GOOGLE_API_KEY")
    running,          \* the task holding the event loop, or NoTask
    pc,               \* per task: position in the handler
    data,             \* per task: the request body
    user_input,       \* per task: line 141
    events,           \* per task: events the stream has delivered so far
    agent_reply,      \* per task: line 149 accumulator
    fb_message,       \* per task: argument of fallback_gemini_response
    response,         \* per task: response.text of the secondary call
    status,           \* per task: HTTP status observed by the caller, 0 = none
    reply,            \* per task: value of "reply" in the response body
    stages,           \* per task: history of the stages entered
    primary_calls,    \* per task: run_async calls
    secondary_calls,  \* per task: generate_content calls
    exc_msg,          \* per task: message of the exception caught last
    detail,           \* per task: detail of the HTTP error response
    environ,          \* process environment other than GOOGLE_API_KEY
    boot,             \* module initialisation: position, import outcome, names bound
    ops               \* the connection of the debug and test endpoints

vars == <<agent_available, root_agent, api_key_env, running, pc, data,
          user_input, events, agent_reply, fb_message, response, status,
          reply, stages, primary_calls, secondary_calls, exc_msg, detail,
          environ, boot, ops>>

globals == <<agent_available, root_agent, api_key_env, environ, boot>>

NoReply == [type |-> "absent", s |-> ""]

\* The configuration values lines 68-72 and 260-266 look up, GOOGLE_API_KEY
\* apart: whether the three store values are set, and the bridge URL.
BridgeUrls == {PyNone, PyStr(""), PyStr("http://bridge:3001")}
Environs == [SHOPIFY_STORE : BOOLEAN, SHOPIFY_ADMIN_TOKEN : BOOLEAN,
             SHOPIFY_STOREFRONT_TOKEN : BOOLEAN, WHATSAPP_BRIDGE_URL : BridgeUrls]
FullEnviron == [SHOPIFY_STORE |-> TRUE, SHOPIFY_ADMIN_TOKEN |-> TRUE,
                SHOPIFY_STOREFRONT_TOKEN |-> TRUE,
                WHATSAPP_BRIDGE_URL |-> PyStr("http://bridge:3001")]

\* The names the module body binds (lines 17-23, 31, 253).
ModuleNames == {"agent_available", "root_agent", "logger", "app"}

NoResult == [endpoint |-> "none"]
NoProbe == [kind |-> "none"]
OpsIdle == [pc |-> "idle", n |-> 0, agent_reply |-> "", probe |-> NoProbe,
            result |-> NoResult]

\* No request is in flight.
Quiescent ==
    /\ running = NoTask
    /\ pc = [t \in Tasks |-> "idle"]
    /\ data = [t \in Tasks |-> NoBody]
    /\ user_input = [t \in Tasks |-> ""]
    /\ events = [t \in Tasks |-> <<>>]
    /\ agent_reply = [t \in Tasks |-> ""]
    /\ fb_message = [t \in Tasks |-> NoReply]
    /\ response = [t \in Tasks |-> NoReply]
    /\ status = [t \in Tasks |-> 0]
    /\ reply = [t \in Tasks |-> NoReply]
    /\ stages = [t \in Tasks |-> <<>>]
    /\ primary_calls = [t \in Tasks |-> 0]
    /\ secondary_calls = [t \in Tasks |-> 0]
    /\ exc_msg = [t \in Tasks |-> ""]
    /\ detail = [t \in Tasks |-> ""]
    /\ ops = OpsIdle

\* The module has been initialised with the flag resolved either way.
\* The module state the handlers are written against: the module body has
\* run to its end and resolved the flag from the import (lines 16-31,
\* 253-254).  BootSpec below executes the module body itself.
Serving ==
    /\ agent_available \in BOOLEAN
    /\ root_agent = IF agent_available THEN "agent" ELSE "None"
    /\ api_key_env \in ApiKeys
    /\ boot = [pc |-> "ready",
               import |-> IF agent_available THEN "ok" ELSE "ImportError",
               bound |-> ModuleNames]

\* The message handler reads no configuration value but GOOGLE_API_KEY: the
\* others are held at one value.
Init ==
    /\ Serving
    /\ environ = FullEnviron
    /\ Quiescent

Enter(t, names) == stages' = [stages EXCEPT ![t] = @ \o names]

\* A request arrives and its handler awaits the body (line 124).
Request(t) ==
    /\ pc[t] = "idle"
    /\ running = NoTask
    /\ \E b \in Bodies : data' = [data EXCEPT ![t] = b]
    /\ pc' = [pc EXCEPT ![t] = "await_json"]
    /\ Enter(t, <<"RECEIVED">>)
    /\ UNCHANGED <<globals, ops, exc_msg, detail, response, running, user_input, events, agent_reply,
                   fb_message, status, reply, primary_calls, secondary_calls>>

\* ---------------------------------------------------------------- handler
\* Mutant of Valid: only user_id is checked.
ValidUserIdOnly(user_id, message) == Truthy(user_id)

\* Line 129: "if not user_id or not message" is false.
Valid(user_id, message) == Truthy(user_id) /\ Truthy(message)

\* Lines 168-170: "except Exception" catches whatever the body of the try
\* raised, the HTTPException of line 130 included, and raises a 500.
OuterExceptStatus(exc) == 500

\* Mutant of OuterExceptDetail: the message of the exception is sent.
OuterExceptDetailLeaks(exc) == exc

\* Line 170: the detail of the 500 is fixed.
OuterExceptDetail(exc) == "Internal server error"

\* Messages of the exceptions a backend raises; a backend may quote the
\* credential it was given.
BackendErrors == {"backend unavailable", "403 API key key-1 rejected"}
\* Line 180.
NoApiKeyError == "GOOGLE_API_KEY not found"
\* Line 152 with a text that is no string.
ConcatTypeError == "can only concatenate str (not int) to str"

\* Line 135: "agent_available and root_agent".
PrimaryUsable == agent_available /\ root_agent # "None"

\* Line 141: the framed input handed to the primary backend.
UserInput(message) == "User message: " \o Format(message)

\* Mutant of Accumulate: the fragment is put in front of the accumulator.
AccumulateReversed(acc, text) == text.s \o acc

\* Line 152: agent_reply += event.text.
Accumulate(acc, text) == acc \o text.s

\* Line 151: hasattr(event, 'text') and event.text.
CarriesText(e) == e.has_text /\ Truthy(e.text)

\* Line 199: response.text if response.text else the greeting.
Greeting == "Hello! I'm Behold, your Shopify assistant. How can I help you today?"
\* Mutant of SecondaryReply: an empty or missing text is passed on.
SecondaryReplyRaw(text) == text

SecondaryReply(text) == IF Truthy(text) THEN text ELSE PyStr(Greeting)

\* Line 203: the canned template.
CannedReply(message) ==
    "Thanks for your message! I'm your Shopify assistant. You said: '"
        \o Format(message) \o "'. How can I help you find products?"

\* Mutant of FallbackArg: the framed input is handed on instead of the message.
FallbackArgFramed(t) == PyStr(UserInput(Get(data[t], "message")))

\* Lines 161 and 164: the argument handed to fallback_gemini_response.
FallbackArg(t) == Get(data[t], "message")

\* Lines 124-130: the body is read and validated.  A body that is no JSON
\* object raises inside the try; a falsy user_id or message raises
\* HTTPException(400) inside the same try.
ReadJson(t) ==
    /\ pc[t] = "await_json"
    /\ running = NoTask
    /\ running' = t
    /\ IF data[t].kind # "object"
       THEN /\ pc' = [pc EXCEPT ![t] = "outer_except_error"]
            /\ Enter(t, <<"ERROR">>)
            /\ exc_msg' = [exc_msg EXCEPT ![t] = "Expecting value"]
       ELSE IF ~Valid(Get(data[t], "user_id"), Get(data[t], "message"))
       THEN /\ pc' = [pc EXCEPT ![t] = "outer_except_400"]
            /\ Enter(t, <<"REJECTED">>)
            /\ exc_msg' = [exc_msg EXCEPT ![t] = "Missing user_id or message"]
       ELSE /\ pc' = [pc EXCEPT ![t] = "select"]
            /\ UNCHANGED <<stages, exc_msg>>
    /\ UNCHANGED <<globals, ops, detail, response, data, user_input, events, agent_reply, fb_message,
                   status, reply, primary_calls, secondary_calls>>

\* Lines 168-170: the outer handler turns the exception into the response.
OuterExcept(t) ==
    /\ pc[t] \in {"outer_except_400", "outer_except_error"}
    /\ running = t
    /\ status' = [status EXCEPT ![t] =
                    OuterExceptStatus(IF pc[t] = "outer_except_400"
                                      THEN "HTTPException" ELSE "Exception")]
    /\ detail' = [detail EXCEPT ![t] = OuterExceptDetail(exc_msg[t])]
    /\ pc' = [pc EXCEPT ![t] = "done"]
    /\ running' = NoTask
    /\ UNCHANGED <<globals, ops, exc_msg, response, data, user_input, events, agent_reply, fb_message,
                   reply, stages, primary_calls, secondary_calls>>

\* Lines 135 and 162-164: the primary is attempted when usable; otherwise
\* the fallback responder is called with the message.
Select(t) ==
    /\ pc[t] = "select"
    /\ running = t
    /\ IF PrimaryUsable
       THEN /\ pc' = [pc EXCEPT ![t] = "primary_context"]
            /\ Enter(t, <<"PRIMARY_ATTEMPT">>)
            /\ UNCHANGED fb_message
       ELSE /\ pc' = [pc EXCEPT ![t] = "fallback"]
            /\ fb_message' = [fb_message EXCEPT ![t] = FallbackArg(t)]
            /\ Enter(t, <<"FALLBACK_ATTEMPT">>)
    /\ UNCHANGED <<globals, ops, exc_msg, detail, response, running, data, user_input, events, agent_reply,
                   status, reply, primary_calls, secondary_calls>>

\* Lines 137-145: the import, the framed input and the invocation context;
\* each may raise.
PrimaryContext(t) ==
    /\ pc[t] = "primary_context"
    /\ running = t
    /\ \E raised \in BOOLEAN :
         IF raised
         THEN /\ pc' = [pc EXCEPT ![t] = "primary_except"]
              /\ Enter(t, <<"FAILED">>)
              /\ \E m \in BackendErrors : exc_msg' = [exc_msg EXCEPT ![t] = m]
              /\ UNCHANGED user_input
         ELSE /\ pc' = [pc EXCEPT ![t] = "primary_start"]
              /\ user_input' = [user_input EXCEPT
                                  ![t] = UserInput(Get(data[t], "message"))]
              /\ UNCHANGED <<stages, exc_msg>>
    /\ UNCHANGED <<globals, ops, detail, response, running, data, events, agent_reply, fb_message,
                   status, reply, primary_calls, secondary_calls>>

\* Lines 146-150: run_async is called; the task then awaits the first event.
PrimaryStart(t) ==
    /\ pc[t] = "primary_start"
    /\ running = t
    /\ primary_calls' = [primary_calls EXCEPT ![t] = @ + 1]
    /\ \E raised \in BOOLEAN :
         IF raised
         THEN /\ pc' = [pc EXCEPT ![t] = "primary_except"]
              /\ Enter(t, <<"FAILED">>)
              /\ \E m \in BackendErrors : exc_msg' = [exc_msg EXCEPT ![t] = m]
              /\ UNCHANGED running
         ELSE /\ pc' = [pc EXCEPT ![t] = "stream"]
              /\ running' = NoTask
              /\ UNCHANGED <<stages, exc_msg>>
    /\ UNCHANGED <<globals, ops, detail, response, data, user_input, events, agent_reply, fb_message,
                   status, reply, secondary_calls>>

\* Mutant of StreamEvent: one accumulator is shared by the requests, and a
\* fragment is appended for every request that drains a stream.
StreamEventShared(t) ==
    /\ pc[t] = "stream"
    /\ running = NoTask
    /\ Len(events[t]) < MaxEvents
    /\ \E e \in Events :
         /\ events' = [events EXCEPT ![t] = Append(@, e)]
         /\ IF CarriesText(e) /\ e.text.type # "str"
            THEN /\ pc' = [pc EXCEPT ![t] = "primary_except"]
                 /\ running' = t
                 /\ Enter(t, <<"FAILED">>)
                 /\ exc_msg' = [exc_msg EXCEPT ![t] = ConcatTypeError]
                 /\ UNCHANGED agent_reply
            ELSE /\ agent_reply' =
                      [u \in Tasks |->
                         IF CarriesText(e) /\ (u = t \/ pc[u] = "stream")
                         THEN Accumulate(agent_reply[u], e.text)
                         ELSE agent_reply[u]]
                 /\ UNCHANGED <<pc, running, stages, exc_msg>>
    /\ UNCHANGED <<globals, ops, detail, response, data, user_input,
                   fb_message, status, reply, primary_calls, secondary_calls>>

\* Lines 150-152: the stream delivers an event.  A text is appended when the
\* event carries one; appending a truthy text that is no string raises.
StreamEvent(t) ==
    /\ pc[t] = "stream"
    /\ running = NoTask
    /\ Len(events[t]) < MaxEvents
    /\ \E e \in Events :
         /\ events' = [events EXCEPT ![t] = Append(@, e)]
         /\ IF CarriesText(e) /\ e.text.type # "str"
            THEN /\ pc' = [pc EXCEPT ![t] = "primary_except"]
                 /\ running' = t
                 /\ Enter(t, <<"FAILED">>)
                 /\ exc_msg' = [exc_msg EXCEPT ![t] = ConcatTypeError]
                 /\ UNCHANGED agent_reply
            ELSE /\ agent_reply' = [agent_reply EXCEPT ![t] =
                        IF CarriesText(e) THEN Accumulate(@, e.text) ELSE @]
                 /\ UNCHANGED <<pc, running, stages, exc_msg>>
    /\ UNCHANGED <<globals, ops, detail, response, data, user_input, fb_message, status, reply,
                   primary_calls, secondary_calls>>

\* Line 150: the stream raises instead of delivering an event.
StreamRaise(t) ==
    /\ pc[t] = "stream"
    /\ running = NoTask
    /\ pc' = [pc EXCEPT ![t] = "primary_except"]
    /\ running' = t
    /\ Enter(t, <<"FAILED">>)
    /\ \E m \in BackendErrors : exc_msg' = [exc_msg EXCEPT ![t] = m]
    /\ UNCHANGED <<globals, ops, detail, response, data, user_input, events, agent_reply, fb_message,
                   status, reply, primary_calls, secondary_calls>>

\* Mutant of StreamEnd: the fallback responder is called although the stream
\* ended normally.
StreamEndThenFallback(t) ==
    /\ pc[t] = "stream"
    /\ running = NoTask
    /\ running' = t
    /\ fb_message' = [fb_message EXCEPT ![t] = Get(data[t], "message")]
    /\ pc' = [pc EXCEPT ![t] = "fallback"]
    /\ Enter(t, <<"FALLBACK_ATTEMPT">>)
    /\ UNCHANGED <<globals, ops, exc_msg, detail, response, data, user_input, events, agent_reply,
                   status, reply, primary_calls, secondary_calls>>

\* Mutant of StreamEnd: an empty accumulation is handled as a failure of the
\* primary and sent to the fallback responder.
StreamEndEmptyFails(t) ==
    /\ pc[t] = "stream"
    /\ running = NoTask
    /\ IF agent_reply[t] = ""
       THEN /\ running' = t
            /\ fb_message' = [fb_message EXCEPT ![t] = Get(data[t], "message")]
            /\ pc' = [pc EXCEPT ![t] = "fallback"]
            /\ Enter(t, <<"FALLBACK_ATTEMPT">>)
            /\ UNCHANGED <<status, reply>>
       ELSE /\ reply' = [reply EXCEPT ![t] = PyStr(agent_reply[t])]
            /\ status' = [status EXCEPT ![t] = 200]
            /\ pc' = [pc EXCEPT ![t] = "done"]
            /\ Enter(t, <<"REPLIED">>)
            /\ UNCHANGED <<running, fb_message>>
    /\ UNCHANGED <<globals, ops, exc_msg, detail, response, data, user_input, events, agent_reply,
                   primary_calls, secondary_calls>>

\* Lines 150, 153-156, 166: the stream ends; the accumulated text is the reply.
StreamEnd(t) ==
    /\ pc[t] = "stream"
    /\ running = NoTask
    /\ reply' = [reply EXCEPT ![t] = PyStr(agent_reply[t])]
    /\ status' = [status EXCEPT ![t] = 200]
    /\ pc' = [pc EXCEPT ![t] = "done"]
    /\ Enter(t, <<"REPLIED">>)
    /\ UNCHANGED <<globals, ops, exc_msg, detail, response, running, data, user_input, events, agent_reply,
                   fb_message, primary_calls, secondary_calls>>

\* Mutant of PrimaryExcept: the failure is not absorbed and reaches the outer
\* handler.
PrimaryExceptPropagates(t) ==
    /\ pc[t] = "primary_except"
    /\ running = t
    /\ pc' = [pc EXCEPT ![t] = "outer_except_error"]
    /\ UNCHANGED <<globals, ops, exc_msg, detail, response, running, data, user_input, events,
                   agent_reply, fb_message, status, reply, stages,
                   primary_calls, secondary_calls>>

\* Mutant of PrimaryExcept: the primary invocation is started again.
PrimaryExceptRetries(t) ==
    /\ pc[t] = "primary_except"
    /\ running = t
    /\ pc' = [pc EXCEPT ![t] = IF primary_calls[t] < 2 THEN "primary_start"
                                                      ELSE "fallback"]
    /\ fb_message' = [fb_message EXCEPT ![t] = Get(data[t], "message")]
    /\ Enter(t, <<"FALLBACK_ATTEMPT">>)
    /\ UNCHANGED <<globals, ops, exc_msg, detail, response, running, data, user_input, events,
                   agent_reply, status, reply, primary_calls, secondary_calls>>

\* Mutant of PrimaryExcept: what the stream delivered before it raised is
\* sent as the reply.
PrimaryExceptKeepsPartial(t) ==
    /\ pc[t] = "primary_except"
    /\ running = t
    /\ IF agent_reply[t] # ""
       THEN /\ reply' = [reply EXCEPT ![t] = PyStr(agent_reply[t])]
            /\ status' = [status EXCEPT ![t] = 200]
            /\ pc' = [pc EXCEPT ![t] = "done"]
            /\ running' = NoTask
            /\ Enter(t, <<"REPLIED">>)
            /\ UNCHANGED fb_message
       ELSE /\ fb_message' = [fb_message EXCEPT ![t] = Get(data[t], "message")]
            /\ pc' = [pc EXCEPT ![t] = "fallback"]
            /\ Enter(t, <<"FALLBACK_ATTEMPT">>)
            /\ UNCHANGED <<reply, status, running>>
    /\ UNCHANGED <<globals, ops, exc_msg, detail, response, data, user_input,
                   events, agent_reply, primary_calls, secondary_calls>>

\* Mutant of PrimaryExcept: the inner handler marks the primary backend as
\* unavailable.
PrimaryExceptDisables(t) ==
    /\ pc[t] = "primary_except"
    /\ running = t
    /\ agent_available' = FALSE
    /\ fb_message' = [fb_message EXCEPT ![t] = FallbackArg(t)]
    /\ pc' = [pc EXCEPT ![t] = "fallback"]
    /\ Enter(t, <<"FALLBACK_ATTEMPT">>)
    /\ UNCHANGED <<root_agent, api_key_env, environ, boot, ops, exc_msg, detail,
                   response, running, data, user_input, events, agent_reply,
                   status, reply, primary_calls, secondary_calls>>

\* Lines 158-161: the inner handler calls the fallback responder.
PrimaryExcept(t) ==
    /\ pc[t] = "primary_except"
    /\ running = t
    /\ fb_message' = [fb_message EXCEPT ![t] = FallbackArg(t)]
    /\ pc' = [pc EXCEPT ![t] = "fallback"]
    /\ Enter(t, <<"FALLBACK_ATTEMPT">>)
    /\ UNCHANGED <<globals, ops, exc_msg, detail, response, running, data, user_input, events, agent_reply,
                   status, reply, primary_calls, secondary_calls>>

\* Lines 174-195: import, credential check, configuration and prompt.  A
\* falsy GOOGLE_API_KEY raises (line 180); the import and the configuration
\* may raise too.
FallbackConfigure(t) ==
    /\ pc[t] = "fallback"
    /\ running = t
    /\ \E raised \in BOOLEAN :
         IF raised \/ ~Truthy(api_key_env)
         THEN /\ pc' = [pc EXCEPT ![t] = "fallback_except"]
              /\ Enter(t, <<"FALLBACK_FAILED">>)
              /\ \E m \in (IF raised THEN BackendErrors ELSE {NoApiKeyError}) :
                    exc_msg' = [exc_msg EXCEPT ![t] = m]
         ELSE /\ pc' = [pc EXCEPT ![t] = "generate"]
              /\ UNCHANGED <<stages, exc_msg>>
    /\ UNCHANGED <<globals, ops, detail, response, running, data, user_input, events, agent_reply,
                   fb_message, status, reply, primary_calls, secondary_calls>>

\* Line 198: generate_content is called.  The call is synchronous: the task
\* keeps the event loop while the secondary backend works.
SecondaryCall(t) ==
    /\ pc[t] = "generate"
    /\ running = t
    /\ secondary_calls' = [secondary_calls EXCEPT ![t] = @ + 1]
    /\ pc' = [pc EXCEPT ![t] = "in_generate"]
    /\ UNCHANGED <<globals, ops, exc_msg, detail, response, running, data, user_input, events, agent_reply,
                   fb_message, status, reply, stages, primary_calls>>

\* Lines 198-199, 161/164, 166: the call returns; the text or the greeting is
\* the reply.
SecondaryReturn(t) ==
    /\ pc[t] = "in_generate"
    /\ running = t
    /\ \E text \in SecondaryTexts :
         /\ response' = [response EXCEPT ![t] = text]
         /\ reply' = [reply EXCEPT ![t] = SecondaryReply(text)]
    /\ status' = [status EXCEPT ![t] = 200]
    /\ pc' = [pc EXCEPT ![t] = "done"]
    /\ running' = NoTask
    /\ Enter(t, <<"REPLIED">>)
    /\ UNCHANGED <<globals, ops, exc_msg, detail, data, user_input, events, agent_reply, fb_message,
                   primary_calls, secondary_calls>>

\* Mutant of SecondaryRaise: the responder has no handler of its own and the
\* failure reaches the outer handler.
SecondaryRaisePropagates(t) ==
    /\ pc[t] = "in_generate"
    /\ running = t
    /\ pc' = [pc EXCEPT ![t] = "outer_except_error"]
    /\ Enter(t, <<"FALLBACK_FAILED">>)
    /\ UNCHANGED <<globals, ops, exc_msg, detail, response, running, data, user_input, events,
                   agent_reply, fb_message, status, reply, primary_calls,
                   secondary_calls>>

\* Lines 198-201: the call, or reading response.text, raises.
SecondaryRaise(t) ==
    /\ pc[t] = "in_generate"
    /\ running = t
    /\ pc' = [pc EXCEPT ![t] = "fallback_except"]
    /\ Enter(t, <<"FALLBACK_FAILED">>)
    /\ \E m \in BackendErrors : exc_msg' = [exc_msg EXCEPT ![t] = m]
    /\ UNCHANGED <<globals, ops, detail, response, running, data, user_input, events, agent_reply,
                   fb_message, status, reply, primary_calls, secondary_calls>>

\* Mutant of Canned: building the canned reply raises.
CannedRaises(t) ==
    /\ pc[t] = "fallback_except"
    /\ running = t
    /\ pc' = [pc EXCEPT ![t] = "outer_except_error"]
    /\ UNCHANGED <<globals, ops, exc_msg, detail, response, running, data, user_input, events,
                   agent_reply, fb_message, status, reply, stages,
                   primary_calls, secondary_calls>>

\* Mutant of Canned: the message of the failure is put into the reply.
CannedEchoesError(t) ==
    /\ pc[t] = "fallback_except"
    /\ running = t
    /\ reply' = [reply EXCEPT ![t] = PyStr("Error: " \o exc_msg[t])]
    /\ status' = [status EXCEPT ![t] = 200]
    /\ pc' = [pc EXCEPT ![t] = "done"]
    /\ running' = NoTask
    /\ Enter(t, <<"CANNED_REPLY", "REPLIED">>)
    /\ UNCHANGED <<globals, ops, exc_msg, detail, response, data, user_input,
                   events, agent_reply, fb_message, primary_calls,
                   secondary_calls>>

\* Lines 201-203, 161/164, 166: the canned reply.
Canned(t) ==
    /\ pc[t] = "fallback_except"
    /\ running = t
    /\ reply' = [reply EXCEPT ![t] = PyStr(CannedReply(fb_message[t]))]
    /\ status' = [status EXCEPT ![t] = 200]
    /\ pc' = [pc EXCEPT ![t] = "done"]
    /\ running' = NoTask
    /\ Enter(t, <<"CANNED_REPLY", "REPLIED">>)
    /\ UNCHANGED <<globals, ops, exc_msg, detail, response, data, user_input, events, agent_reply, fb_message,
                   primary_calls, secondary_calls>>

\* The response has been sent; the task's locals are discarded and the
\* connection may carry the next request.
Finish(t) ==
    /\ pc[t] = "done"
    /\ running = NoTask
    /\ pc' = [pc EXCEPT ![t] = "idle"]
    /\ data' = [data EXCEPT ![t] = NoBody]
    /\ user_input' = [user_input EXCEPT ![t] = ""]
    /\ events' = [events EXCEPT ![t] = <<>>]
    /\ agent_reply' = [agent_reply EXCEPT ![t] = ""]
    /\ fb_message' = [fb_message EXCEPT ![t] = NoReply]
    /\ response' = [response EXCEPT ![t] = NoReply]
    /\ status' = [status EXCEPT ![t] = 0]
    /\ reply' = [reply EXCEPT ![t] = NoReply]
    /\ stages' = [stages EXCEPT ![t] = <<>>]
    /\ primary_calls' = [primary_calls EXCEPT ![t] = 0]
    /\ secondary_calls' = [secondary_calls EXCEPT ![t] = 0]
    /\ exc_msg' = [exc_msg EXCEPT ![t] = ""]
    /\ detail' = [detail EXCEPT ![t] = ""]
    /\ UNCHANGED <<globals, ops, running>>

Next ==
    \/ \E t \in Serial : Request(t)
    \/ \E t \in Serial : ReadJson(t)
    \/ \E t \in Serial : OuterExcept(t)
    \/ \E t \in Serial : Select(t)
    \/ \E t \in Serial : PrimaryContext(t)
    \/ \E t \in Serial : PrimaryStart(t)
    \/ \E t \in Serial : StreamEvent(t)
    \/ \E t \in Serial : StreamRaise(t)
    \/ \E t \in Serial : StreamEnd(t)
    \/ \E t \in Serial : PrimaryExcept(t)
    \/ \E t \in Serial : FallbackConfigure(t)
    \/ \E t \in Serial : SecondaryCall(t)
    \/ \E t \in Serial : SecondaryReturn(t)
    \/ \E t \in Serial : SecondaryRaise(t)
    \/ \E t \in Serial : Canned(t)
    \/ \E t \in Serial : Finish(t)

Spec == Init /\ [][Next]_vars

\* The steps of the handler of one request.  The event loop runs every task
\* that is ready, every backend call returns or raises, and the event stream
\* is finite: a request that has arrived keeps taking steps.
HandlerStep(t) ==
    \/ ReadJson(t) \/ OuterExcept(t) \/ Select(t) \/ PrimaryContext(t)
    \/ PrimaryStart(t) \/ StreamEvent(t) \/ StreamRaise(t) \/ StreamEnd(t)
    \/ PrimaryExcept(t) \/ FallbackConfigure(t) \/ SecondaryCall(t)
    \/ SecondaryReturn(t) \/ SecondaryRaise(t) \/ Canned(t)

FairSpec == Init /\ [][Next]_vars /\ \A t \in Serial : WF_vars(HandlerStep(t))

\* ------------------------------------------------------- concurrent requests
\* Requests in flight on every connection at once.  The inputs are narrowed
\* to two well-formed bodies and a malformed one, two text fragments and two
\* secondary texts; the stream is cut at ConcMaxEvents events.
ConcMaxEvents == 2
ConcBodies ==
    {[kind |-> "object", user_id |-> PyStr("u1"), message |-> m] :
        m \in {PyStr("hi"), PyStr("What products do you have?"), Missing}}
ConcEvents == {TextEvent(PyStr("Hello, ")), TextEvent(PyStr("world!"))}
ConcTexts == {PyStr("We sell mugs."), PyStr("")}

Narrowed(t) ==
    /\ data'[t] \in ConcBodies \cup {NoBody}
    /\ Len(events'[t]) <= ConcMaxEvents
    /\ \A i \in 1..Len(events'[t]) : events'[t][i] \in ConcEvents
    /\ response'[t] \in ConcTexts \cup {NoReply}

ConcNext ==
    \/ \E t \in Tasks : Request(t) /\ Narrowed(t)
    \/ \E t \in Tasks : ReadJson(t) /\ Narrowed(t)
    \/ \E t \in Tasks : OuterExcept(t) /\ Narrowed(t)
    \/ \E t \in Tasks : Select(t) /\ Narrowed(t)
    \/ \E t \in Tasks : PrimaryContext(t) /\ Narrowed(t)
    \/ \E t \in Tasks : PrimaryStart(t) /\ Narrowed(t)
    \/ \E t \in Tasks : StreamEvent(t) /\ Narrowed(t)
    \/ \E t \in Tasks : StreamRaise(t) /\ Narrowed(t)
    \/ \E t \in Tasks : StreamEnd(t) /\ Narrowed(t)
    \/ \E t \in Tasks : PrimaryExcept(t) /\ Narrowed(t)
    \/ \E t \in Tasks : FallbackConfigure(t) /\ Narrowed(t)
    \/ \E t \in Tasks : SecondaryCall(t) /\ Narrowed(t)
    \/ \E t \in Tasks : SecondaryReturn(t) /\ Narrowed(t)
    \/ \E t \in Tasks : SecondaryRaise(t) /\ Narrowed(t)
    \/ \E t \in Tasks : Canned(t) /\ Narrowed(t)
    \/ \E t \in Tasks : Finish(t) /\ Narrowed(t)

ConcSpec == Init /\ [][ConcNext]_vars

\* ------------------------------------------------- debug and test endpoints
\* Lines 60-75: GET /debug/app.
DebugAppResult ==
    [endpoint |-> "/debug/app",
     app_status |-> "running",
     agent_available |-> agent_available,
     agent_loaded |-> (root_agent # "None"),
     environment_vars |->
        [SHOPIFY_STORE |-> environ.SHOPIFY_STORE,
         SHOPIFY_ADMIN_TOKEN |-> environ.SHOPIFY_ADMIN_TOKEN,
         SHOPIFY_STOREFRONT_TOKEN |-> environ.SHOPIFY_STOREFRONT_TOKEN,
         WHATSAPP_BRIDGE_URL |-> Truthy(environ.WHATSAPP_BRIDGE_URL),
         GOOGLE_API_KEY |-> Truthy(api_key_env)],
     adk_agent_mode |-> IF agent_available THEN "enabled" ELSE "fallback_mode"]

DebugApp ==
    /\ ops.pc = "idle"
    /\ running = NoTask
    /\ ops' = [ops EXCEPT !.pc = "done", !.result = DebugAppResult]
    /\ UNCHANGED <<globals, running, pc, data, user_input, events, agent_reply,
                   fb_message, response, status, reply, stages, primary_calls,
                   secondary_calls, exc_msg, detail>>

\* Line 82: os.getenv with a default, which applies to an unset name only.
BridgeUrl ==
    IF environ.WHATSAPP_BRIDGE_URL = PyNone THEN "http://localhost:3001"
    ELSE environ.WHATSAPP_BRIDGE_URL.s

\* Outcomes of requests.get(f"{bridge_url}/health", timeout=10), line 86: the
\* connection fails, another exception is raised, or a response arrives with
\* a status code and a body that is JSON or not.
NoJson == [type |-> "absent", s |-> ""]
StatusCodes == {PyInt("200"), PyInt("204"), PyInt("404"), PyInt("500")}
ProbeFailures ==
    {[kind |-> "ConnectionError", msg |-> "Connection refused",
      status_code |-> PyInt("0"), json |-> NoJson, text |-> ""],
     [kind |-> "Exception", msg |-> "Read timed out",
      status_code |-> PyInt("0"), json |-> NoJson, text |-> ""]}
ProbeResponses ==
    {[kind |-> "response", msg |-> "", status_code |-> c, json |-> j, text |-> x] :
        c \in StatusCodes,
        j \in {PyStr("{status: ok}"), NoJson},
        x \in {"", "Service Unavailable"}}
\* An URL without scheme is refused by requests.get before any connection.
ProbeOutcomes(url) ==
    IF url = ""
    THEN {[kind |-> "Exception", msg |-> "Invalid URL /health: No scheme supplied",
           status_code |-> PyInt("0"), json |-> NoJson, text |-> ""]}
    ELSE ProbeFailures \cup ProbeResponses

\* Lines 112-118.
BridgeFailed(url, msg) ==
    [endpoint |-> "/debug/bridge", bridge_status |-> "error", bridge_url |-> url,
     error |-> "Failed to check bridge: " \o msg, agent_import |-> "not_used"]

\* Mutant of BridgeResult: the handler of Exception stands before the handler
\* of ConnectionError.
BridgeResultGenericFirst(url, o) ==
    IF o.kind \in {"ConnectionError", "Exception"} THEN BridgeFailed(url, o.msg)
    ELSE IF o.status_code = PyInt("200")
    THEN (IF o.json = NoJson THEN BridgeFailed(url, "Expecting value")
          ELSE [endpoint |-> "/debug/bridge", bridge_status |-> "connected",
                bridge_url |-> url, bridge_response |-> o.json,
                agent_import |-> "not_used"])
    ELSE [endpoint |-> "/debug/bridge", bridge_status |-> "error",
          bridge_url |-> url,
          error |-> "Bridge returned status " \o Format(o.status_code),
          response_text |-> o.text, agent_import |-> "not_used"]

\* Lines 84-118: the response of /debug/bridge for a probe outcome.
BridgeResult(url, o) ==
    IF o.kind = "ConnectionError"
    THEN [endpoint |-> "/debug/bridge", bridge_status |-> "disconnected",
          bridge_url |-> url,
          error |-> "Cannot connect to WhatsApp bridge at " \o url
                       \o ". Is the bridge server running?",
          agent_import |-> "not_used"]
    ELSE IF o.kind = "Exception" THEN BridgeFailed(url, o.msg)
    ELSE IF o.status_code = PyInt("200")
    THEN (IF o.json = NoJson
          \* response.json() raises (line 89) into the handler of line 112
          THEN BridgeFailed(url, "Expecting value")
          ELSE [endpoint |-> "/debug/bridge", bridge_status |-> "connected",
                bridge_url |-> url, bridge_response |-> o.json,
                agent_import |-> "not_used"])
    ELSE [endpoint |-> "/debug/bridge", bridge_status |-> "error",
          bridge_url |-> url,
          error |-> "Bridge returned status " \o Format(o.status_code),
          response_text |-> o.text, agent_import |-> "not_used"]

\* Lines 77-118: GET /debug/bridge.  requests.get is a synchronous call: the
\* handler runs from its first line to its return without an awaited point.
\* The probe outcome is kept next to the result.
DebugBridge ==
    /\ ops.pc = "idle"
    /\ running = NoTask
    /\ \E o \in ProbeOutcomes(BridgeUrl) :
         ops' = [ops EXCEPT !.pc = "done", !.probe = o,
                            !.result = BridgeResult(BridgeUrl, o)]
    /\ UNCHANGED <<globals, running, pc, data, user_input, events, agent_reply,
                   fb_message, response, status, reply, stages, primary_calls,
                   secondary_calls, exc_msg, detail>>

\* Line 221.
TestInput == "User message: What products do you have?"

\* Lines 243-247.
TestFailed(msg) ==
    [endpoint |-> "/test-agent", error |-> "Agent test failed: " \o msg,
     agent_available |-> agent_available]

\* Lines 210-229: POST /test-agent up to the first awaited event.
TestAgentBegin ==
    /\ ops.pc = "idle"
    /\ running = NoTask
    /\ IF ~PrimaryUsable
       THEN ops' = [ops EXCEPT !.pc = "done", !.result =
                       [endpoint |-> "/test-agent",
                        error |-> "Agent not available",
                        agent_available |-> agent_available]]
       ELSE \E raised \in BOOLEAN :
              IF raised
              THEN \E m \in BackendErrors :
                     ops' = [ops EXCEPT !.pc = "done", !.result = TestFailed(m)]
              ELSE ops' = [ops EXCEPT !.pc = "test_stream"]
    /\ UNCHANGED <<globals, running, pc, data, user_input, events, agent_reply,
                   fb_message, response, status, reply, stages, primary_calls,
                   secondary_calls, exc_msg, detail>>

\* Lines 229-231: the stream delivers an event to /test-agent.
TestAgentEvent ==
    /\ ops.pc = "test_stream"
    /\ running = NoTask
    /\ ops.n < MaxEvents
    /\ \E e \in Events :
         IF CarriesText(e) /\ e.text.type # "str"
         THEN ops' = [ops EXCEPT !.pc = "done", !.n = @ + 1,
                                 !.result = TestFailed(ConcatTypeError)]
         ELSE ops' = [ops EXCEPT !.n = @ + 1, !.agent_reply =
                         IF CarriesText(e) THEN Accumulate(@, e.text) ELSE @]
    /\ UNCHANGED <<globals, running, pc, data, user_input, events, agent_reply,
                   fb_message, response, status, reply, stages, primary_calls,
                   secondary_calls, exc_msg, detail>>

\* Lines 229, 243-247: the stream raises.
TestAgentRaise ==
    /\ ops.pc = "test_stream"
    /\ running = NoTask
    /\ \E m \in BackendErrors :
         ops' = [ops EXCEPT !.pc = "done", !.result = TestFailed(m)]
    /\ UNCHANGED <<globals, running, pc, data, user_input, events, agent_reply,
                   fb_message, response, status, reply, stages, primary_calls,
                   secondary_calls, exc_msg, detail>>

\* Lines 229, 232-241: the stream ends.
TestAgentEnd ==
    /\ ops.pc = "test_stream"
    /\ running = NoTask
    /\ ops' = [ops EXCEPT !.pc = "done", !.result =
                  [endpoint |-> "/test-agent", success |-> TRUE,
                   agent_response |-> ops.agent_reply,
                   agent_available |-> agent_available,
                   test_input |-> TestInput]]
    /\ UNCHANGED <<globals, running, pc, data, user_input, events, agent_reply,
                   fb_message, response, status, reply, stages, primary_calls,
                   secondary_calls, exc_msg, detail>>

\* The response has been sent.
OpsFinish ==
    /\ ops.pc = "done"
    /\ running = NoTask
    /\ ops' = OpsIdle
    /\ UNCHANGED <<globals, running, pc, data, user_input, events, agent_reply,
                   fb_message, response, status, reply, stages, primary_calls,
                   secondary_calls, exc_msg, detail>>

\* The debug and test endpoints next to the message endpoint of one
\* connection, whose inputs are narrowed as for the concurrent requests.
OpsEnvirons ==
    {e \in Environs : /\ e.SHOPIFY_STORE
                      /\ ~e.SHOPIFY_ADMIN_TOKEN
                      /\ e.SHOPIFY_STOREFRONT_TOKEN}

OpsInit == Serving /\ environ \in OpsEnvirons /\ Quiescent

OpsNext ==
    \/ DebugApp
    \/ DebugBridge
    \/ TestAgentBegin
    \/ TestAgentEvent
    \/ TestAgentRaise
    \/ TestAgentEnd
    \/ OpsFinish
    \/ \E t \in Serial : Next /\ Narrowed(t)

OpsSpec == OpsInit /\ [][OpsNext]_vars

\* ---------------------------------------------------- module initialisation
\* The module has not been executed yet: no module-level name is bound.  The
\* variables of unbound names hold placeholders; boot.bound says which names
\* exist.
BootInit ==
    /\ agent_available = FALSE
    /\ root_agent = "unbound"
    /\ api_key_env \in ApiKeys
    /\ environ \in Environs
    /\ boot = [pc |-> "import", import |-> "pending", bound |-> {}]
    /\ Quiescent

\* Line 17: from agent.agent import root_agent.  The import succeeds, raises
\* ImportError, or raises another exception, which line 20 does not catch.
ImportAgent ==
    /\ boot.pc = "import"
    /\ \E o \in {"ok", "ImportError", "RuntimeError"} :
         /\ boot' = [pc |-> IF o = "RuntimeError" THEN "crashed" ELSE "imported",
                     import |-> o,
                     bound |-> IF o = "ok" THEN {"root_agent"} ELSE {}]
         /\ root_agent' = IF o = "ok" THEN "agent" ELSE root_agent
    /\ UNCHANGED <<agent_available, api_key_env, environ, running, pc, data,
                   user_input, events, agent_reply, fb_message, response,
                   status, reply, stages, primary_calls, secondary_calls,
                   exc_msg, detail, ops>>

\* Lines 18-31 and 253-254: the rest of the module body.  Lines 19 and 21
\* read the name logger, which line 31 binds: a read of an unbound name
\* raises NameError, which nothing catches.
ModuleBody ==
    /\ boot.pc = "imported"
    /\ IF boot.import = "ok"
       THEN /\ agent_available' = TRUE
            /\ root_agent' = root_agent
            /\ boot' = IF "logger" \in boot.bound
                       THEN [boot EXCEPT !.pc = "ready", !.bound = ModuleNames]
                       ELSE [boot EXCEPT !.pc = "crashed",
                                         !.bound = @ \cup {"agent_available"}]
       ELSE IF "logger" \in boot.bound
            THEN /\ root_agent' = "None"
                 /\ agent_available' = FALSE
                 /\ boot' = [boot EXCEPT !.pc = "ready", !.bound = ModuleNames]
            ELSE /\ boot' = [boot EXCEPT !.pc = "crashed"]
                 /\ UNCHANGED <<agent_available, root_agent>>
    /\ UNCHANGED <<api_key_env, environ, running, pc, data, user_input, events,
                   agent_reply, fb_message, response, status, reply, stages,
                   primary_calls, secondary_calls, exc_msg, detail, ops>>

BootNext == ImportAgent \/ ModuleBody

BootSpec == BootInit /\ [][BootNext]_vars

\* ------------------------------------------------------------------ claims
Entered(t, stage) == \E i \in 1..Len(stages[t]) : stages[t][i] = stage

\* A value that is a non-empty string.
NonEmptyString(v) == v.type = "str" /\ v.s # ""
\* A field that is absent, null or empty.
AbsentOrEmpty(v) == v \in {Missing, PyNone, PyStr("")}

\* The request of task t is a JSON object with non-empty user_id and message.
WellFormed(t) ==
    /\ data[t].kind = "object"
    /\ NonEmptyString(data[t].user_id)
    /\ NonEmptyString(data[t].message)

\* The request of task t is a JSON object that lacks user_id or message, or
\* carries one of them empty.
Malformed(t) ==
    /\ data[t].kind = "object"
    /\ (AbsentOrEmpty(data[t].user_id) \/ AbsentOrEmpty(data[t].message))

TemplateOf(m) ==
    "Thanks for your message! I'm your Shopify assistant. You said: '"
        \o m \o "'. How can I help you find products?"

\* C1: a request with non-empty user_id and message never reaches the outer
\* exception handler, and once answered its status is 200 and its reply is a
\* string, whatever the flag, the credential and the backends' outcomes are.
C1_WellFormedAlways200 ==
    \A t \in Tasks :
        WellFormed(t) =>
            /\ pc[t] \notin {"outer_except_400", "outer_except_error"}
            /\ pc[t] = "done" => (status[t] = 200 /\ reply[t].type = "str")
            /\ pc[t] # "done" => status[t] = 0

\* C1 witness: a well-formed request answered 200 after the primary raised
\* while its stream was drained and the secondary call raised too.
C1_Witness ==
    \E t \in Tasks :
        /\ WellFormed(t) /\ pc[t] = "done" /\ status[t] = 200
        /\ agent_available /\ Len(events[t]) >= 1
        /\ secondary_calls[t] = 1
        /\ stages[t] = <<"RECEIVED", "PRIMARY_ATTEMPT", "FAILED",
                         "FALLBACK_ATTEMPT", "FALLBACK_FAILED",
                         "CANNED_REPLY", "REPLIED">>

\* C2 (as claimed): a request that lacks user_id or message, or carries one
\* of them empty, is answered with status 400.
C2_MalformedGets400 ==
    \A t \in Tasks : (Malformed(t) /\ pc[t] = "done") => status[t] = 400

\* C3: once the primary attempt has raised, the failure never reaches the
\* outer handler; the fallback responder is entered with the request's own
\* message, not the framed input, and the request is answered 200.
C3_PrimaryFailureAbsorbed ==
    \A t \in Tasks :
        Entered(t, "FAILED") =>
            /\ pc[t] \in {"primary_except", "fallback", "generate",
                          "in_generate", "fallback_except", "done"}
            /\ pc[t] # "primary_except" =>
                  /\ Entered(t, "FALLBACK_ATTEMPT")
                  /\ fb_message[t] = data[t].message
                  /\ fb_message[t] # PyStr("User message: " \o data[t].message.s)
            /\ pc[t] = "done" => status[t] = 200

\* C3 witness: the stream raised after delivering an event, and the request
\* was answered 200 by the secondary backend.
C3_Witness ==
    \E t \in Tasks :
        /\ pc[t] = "done" /\ status[t] = 200
        /\ primary_calls[t] = 1 /\ Len(events[t]) >= 1
        /\ stages[t] = <<"RECEIVED", "PRIMARY_ATTEMPT", "FAILED",
                         "FALLBACK_ATTEMPT", "REPLIED">>

\* C4: when the fallback responder was reached and its secondary step
\* raised, which it always does with an absent credential, the reply is the
\* canned template around the request's message and nothing else.
C4_CannedReplyIsTemplate ==
    \A t \in Tasks :
        (pc[t] = "done" /\ Entered(t, "FALLBACK_ATTEMPT")) =>
            /\ ~Truthy(api_key_env) =>
                  (Entered(t, "FALLBACK_FAILED") /\ secondary_calls[t] = 0)
            /\ Entered(t, "FALLBACK_FAILED") =>
                  reply[t] = PyStr(TemplateOf(data[t].message.s))
            /\ (Entered(t, "FALLBACK_FAILED")
                    /\ data[t].message = PyStr("What products do you have?")) =>
                  reply[t].s = "Thanks for your message! I'm your Shopify assistant. You said: 'What products do you have?'. How can I help you find products?"

\* C4 witness: the primary is unavailable, the credential is absent, and the
\* scenario's message is answered with the template.
C4_Witness ==
    \E t \in Tasks :
        /\ pc[t] = "done" /\ ~agent_available /\ api_key_env = PyNone
        /\ data[t].message = PyStr("What products do you have?")
        /\ reply[t].s = "Thanks for your message! I'm your Shopify assistant. You said: 'What products do you have?'. How can I help you find products?"

\* The texts of the events that carry a non-empty string, joined in order.
RECURSIVE JoinTexts(_)
JoinTexts(evs) ==
    IF evs = <<>> THEN ""
    ELSE (IF Head(evs).has_text /\ NonEmptyString(Head(evs).text)
          THEN Head(evs).text.s ELSE "") \o JoinTexts(Tail(evs))

\* C5: when the stream ended without raising, the reply is the texts of the
\* events that carry a non-empty text, joined in arrival order, and nothing
\* else.
C5_ReplyIsConcatenation ==
    \A t \in Tasks :
        (pc[t] = "done" /\ stages[t] = <<"RECEIVED", "PRIMARY_ATTEMPT", "REPLIED">>) =>
            /\ reply[t] = PyStr(JoinTexts(events[t]))
            /\ status[t] = 200
            /\ events[t] = <<TextEvent(PyStr("Hello, ")), TextEvent(PyStr("world!"))>>
                  => reply[t].s = "Hello, world!"

\* C5 witness: "Hello, " and "world!" arrive around an event without text.
C5_Witness ==
    \E t \in Tasks :
        /\ pc[t] = "done"
        /\ events[t] = <<TextEvent(PyStr("Hello, ")), NoTextEvent,
                         TextEvent(PyStr("world!"))>>
        /\ reply[t].s = "Hello, world!"

FallbackPcs == {"fallback", "generate", "in_generate", "fallback_except"}

IsPrefix(a, b) == Len(a) <= Len(b) /\ SubSeq(b, 1, Len(a)) = a

\* The stage histories of a handled request.
StagePaths ==
    { <<"RECEIVED", "PRIMARY_ATTEMPT", "REPLIED">>,
      <<"RECEIVED", "PRIMARY_ATTEMPT", "FAILED", "FALLBACK_ATTEMPT", "REPLIED">>,
      <<"RECEIVED", "PRIMARY_ATTEMPT", "FAILED", "FALLBACK_ATTEMPT",
        "FALLBACK_FAILED", "CANNED_REPLY", "REPLIED">>,
      <<"RECEIVED", "FALLBACK_ATTEMPT", "REPLIED">>,
      <<"RECEIVED", "FALLBACK_ATTEMPT", "FALLBACK_FAILED", "CANNED_REPLY",
        "REPLIED">>,
      <<"RECEIVED", "REJECTED">>,
      <<"RECEIVED", "ERROR">> }

C6_Order ==
    \A t \in Tasks :
        /\ \E p \in StagePaths : IsPrefix(stages[t], p)
        /\ (pc[t] \in FallbackPcs \/ secondary_calls[t] > 0) =>
              \/ ~agent_available /\ primary_calls[t] = 0 /\ events[t] = <<>>
              \/ Entered(t, "FAILED")
        /\ (pc[t] = "fallback_except" \/ Entered(t, "CANNED_REPLY")) =>
              Entered(t, "FALLBACK_FAILED")
        /\ (pc[t] = "done" /\ ~Entered(t, "FALLBACK_FAILED")) =>
              reply[t] # PyStr(TemplateOf(data[t].message.s))
        /\ (pc[t] = "done" /\ ~Entered(t, "FALLBACK_ATTEMPT")) =>
              (secondary_calls[t] = 0 /\ response[t] = NoReply)

C6_Step ==
    \A t \in Tasks :
        \* no stage runs after a reply has been produced
        /\ status[t] = 200 =>
              \/ pc'[t] = "idle"
              \/ /\ pc'[t] = "done" /\ reply'[t] = reply[t]
                 /\ stages'[t] = stages[t]
                 /\ primary_calls'[t] = primary_calls[t]
                 /\ secondary_calls'[t] = secondary_calls[t]
        \* the primary takes no step while the fallback responder works
        /\ pc[t] \in FallbackPcs =>
              /\ events'[t] = events[t] /\ agent_reply'[t] = agent_reply[t]
              /\ primary_calls'[t] = primary_calls[t]
              /\ pc'[t] \in FallbackPcs \cup {"done"}

\* C6: for one message the stages run in sequence and only on failure of the
\* stage before: the fallback responder works only after the primary was
\* unavailable or raised, the canned reply is built only after the secondary
\* step raised, nothing runs after a reply was produced, and the primary
\* takes no step while the fallback responder works.
C6_StagesInSequence == []C6_Order /\ [][C6_Step]_vars

\* C6 witness: the fallback responder is at its secondary call after the
\* primary stream raised.
C6_Witness ==
    \E t \in Tasks :
        /\ pc[t] = "in_generate" /\ primary_calls[t] = 1
        /\ Len(events[t]) = 2
        /\ stages[t] = <<"RECEIVED", "PRIMARY_ATTEMPT", "FAILED", "FALLBACK_ATTEMPT">>

NoRepeat(seq) == \A i, j \in 1..Len(seq) : seq[i] = seq[j] => i = j

\* C7: a request that passed validation is eventually answered 200; no stage
\* is entered twice; and the fallback responder, once entered, ends only by
\* returning a string.
C7_EventuallyReplied ==
    /\ \A t \in Tasks :
          (pc[t] = "select") ~> (pc[t] = "done" /\ status[t] = 200)
    /\ [](\A t \in Tasks : NoRepeat(stages[t]))
    /\ [][\A t \in Tasks :
            (pc[t] \in FallbackPcs /\ pc'[t] \notin FallbackPcs) =>
                (pc'[t] = "done" /\ reply'[t].type = "str"
                   /\ Entered(t, "FALLBACK_ATTEMPT"))]_vars

\* C7 witness: a request answered by the canned reply with the primary
\* unavailable and a credential present.
C7_Witness ==
    \E t \in Tasks :
        /\ pc[t] = "done" /\ status[t] = 200 /\ ~agent_available
        /\ Truthy(api_key_env)
        /\ stages[t] = <<"RECEIVED", "FALLBACK_ATTEMPT", "FALLBACK_FAILED",
                         "CANNED_REPLY", "REPLIED">>

\* C8 (as claimed): an answered message saw exactly one run_async call when
\* the flag is true and none when it is false, and at most one secondary call.
C8_ExactlyOneInvocation ==
    \A t \in Tasks :
        (pc[t] = "done" /\ status[t] = 200) =>
            /\ primary_calls[t] = (IF agent_available THEN 1 ELSE 0)
            /\ secondary_calls[t] <= 1

\* C8 (amended): run_async is called at most once per message and never with
\* the flag false; an answered message saw exactly one call when the flag is
\* true and the invocation context was constructed, and none when the flag is
\* false or the construction raised; the secondary backend is called at most
\* once.
C8_AtMostOneInvocation ==
    \A t \in Tasks :
        /\ primary_calls[t] <= 1
        /\ secondary_calls[t] <= 1
        /\ ~agent_available => primary_calls[t] = 0
        /\ (pc[t] = "done" /\ status[t] = 200) =>
              primary_calls[t] =
                  (IF agent_available /\ user_input[t] # "" THEN 1 ELSE 0)

\* C8 witness: the flag is true, the context construction raised, and the
\* message was answered without any run_async call.
C8_Witness ==
    \E t \in Tasks :
        /\ pc[t] = "done" /\ status[t] = 200 /\ agent_available
        /\ user_input[t] = "" /\ primary_calls[t] = 0
        /\ Entered(t, "FAILED")

\* C9: for a request that lacks user_id or message, or carries one of them
\* empty, no backend is called and no reply is built, in any state.
C9_RejectedBeforeBackends ==
    \A t \in Tasks :
        Malformed(t) =>
            /\ primary_calls[t] = 0 /\ secondary_calls[t] = 0
            /\ reply[t] = NoReply /\ fb_message[t] = NoReply
            /\ events[t] = <<>>
            /\ pc[t] \in {"await_json", "outer_except_400", "done"}
            /\ pc[t] # "await_json" => stages[t] = <<"RECEIVED", "REJECTED">>

\* C9 witness: a request without message has been rejected and answered.
C9_Witness ==
    \E t \in Tasks :
        /\ pc[t] = "done" /\ data[t].message = Missing
        /\ data[t].user_id = PyStr("u1")
        /\ stages[t] = <<"RECEIVED", "REJECTED">>

\* C10: when the secondary call returned, the reply is its text if that is
\* non-empty and the fixed greeting otherwise; every reply of the fallback
\* responder is a non-empty string.
C10_SecondaryTextOrGreeting ==
    \A t \in Tasks :
        /\ (pc[t] = "done" /\ response[t] # NoReply) =>
              reply[t] = (IF NonEmptyString(response[t]) THEN response[t]
                          ELSE PyStr("Hello! I'm Behold, your Shopify assistant. How can I help you today?"))
        /\ (pc[t] = "done" /\ Entered(t, "FALLBACK_ATTEMPT")) =>
              NonEmptyString(reply[t])

\* C10 witness: the secondary call returned an empty text and the greeting
\* was sent.
C10_Witness ==
    \E t \in Tasks :
        /\ pc[t] = "done" /\ response[t] = PyStr("")
        /\ reply[t].s = "Hello! I'm Behold, your Shopify assistant. How can I help you today?"

\* No event of the sequence carries a non-empty string.
NoFragment(evs) ==
    \A i \in 1..Len(evs) : ~(evs[i].has_text /\ NonEmptyString(evs[i].text))

\* C11: when the primary is usable and its stream ends, without having
\* raised, with no non-empty fragment delivered, the request is answered 200
\* with the empty string and neither the secondary backend nor the canned
\* reply is used; the stream is left only by a raise or by that answer.
C11_EmptyReplyIsValid ==
    \A t \in Tasks :
        /\ (pc[t] = "stream" /\ NoFragment(events[t])) => agent_reply[t] = ""
        /\ (PrimaryUsable /\ primary_calls[t] = 1 /\ ~Entered(t, "FAILED")
              /\ NoFragment(events[t]) /\ pc[t] # "stream") =>
                /\ pc[t] = "done" /\ status[t] = 200 /\ reply[t] = PyStr("")
                /\ secondary_calls[t] = 0 /\ response[t] = NoReply
                /\ fb_message[t] = NoReply
                /\ stages[t] = <<"RECEIVED", "PRIMARY_ATTEMPT", "REPLIED">>

\* C11 witness: a stream of an event without text and an event with an empty
\* text has ended and the empty reply was sent.
C11_Witness ==
    \E t \in Tasks :
        /\ pc[t] = "done" /\ status[t] = 200 /\ reply[t] = PyStr("")
        /\ events[t] = <<NoTextEvent, TextEvent(PyStr(""))>>
        /\ secondary_calls[t] = 0

\* Task u waits at an awaited point.
Suspended(u) == pc[u] \in {"await_json", "stream"}

\* C12 (as claimed): a task that is inside the secondary backend's call or
\* waits at the primary's event stream has yielded the event loop, so that
\* another in-flight task that waits at an awaited point can take its step.
C12_BoundaryCallsYield ==
    \A t, u \in Tasks :
        (t # u /\ pc[t] \in {"in_generate", "stream"} /\ Suspended(u)) =>
            (running # t /\ ENABLED HandlerStep(u))

GreetingText == "Hello! I'm Behold, your Shopify assistant. How can I help you today?"

\* What the fallback responder answers to the request of task t, given the
\* text its secondary call returned, if it returned.
FallbackOutput(t) ==
    IF response[t] # NoReply
    THEN (IF NonEmptyString(response[t]) THEN response[t] ELSE PyStr(GreetingText))
    ELSE PyStr(TemplateOf(data[t].message.s))

\* The reply the request of task t gets when it is handled alone with the
\* same backend outcomes.
AloneReply(t) ==
    IF Entered(t, "FALLBACK_ATTEMPT") THEN FallbackOutput(t)
    ELSE PyStr(JoinTexts(events[t]))

\* What a request keeps to itself.
Locals(t) ==
    <<pc[t], data[t], user_input[t], events[t], agent_reply[t], fb_message[t],
      response[t], status[t], reply[t], stages[t], primary_calls[t],
      secondary_calls[t], exc_msg[t], detail[t]>>

C13_Own ==
    \A t \in Tasks :
        /\ agent_reply[t] = JoinTexts(events[t])
        /\ (pc[t] = "done" /\ status[t] = 200) => reply[t] = AloneReply(t)

C13_Frame ==
    \A t, u \in Tasks :
        (t # u /\ Locals(t)' # Locals(t)) => Locals(u)' = Locals(u)

\* C13: with requests interleaved at their awaited points, the accumulator
\* of a request holds the fragments of its own stream only, its reply is the
\* reply it gets when handled alone with the same backend outcomes, and a
\* step of one request changes nothing another request keeps.
C13_RequestsIsolated == []C13_Own /\ [][C13_Frame]_vars

\* C13 witness: two requests drain their streams at the same time and have
\* accumulated different fragments.
C13_Witness ==
    /\ pc["t1"] = "stream" /\ pc["t2"] = "stream"
    /\ agent_reply["t1"] = "Hello, "
    /\ agent_reply["t2"] = "world!Hello, "

\* C17: the response is a function of the request, the stages passed, the
\* events delivered and the text the secondary backend returned: the status
\* is 200 or 500, the detail of a 500 is fixed, the reply is the primary's
\* text, the secondary's text, the greeting or the template around the
\* message; two requests that agree on these get the same response whatever
\* the messages of the exceptions caught were.
C17_ResponseIgnoresErrorText ==
    /\ \A t \in Tasks :
          pc[t] = "done" =>
              \/ /\ status[t] = 500 /\ detail[t] = "Internal server error"
                 /\ reply[t] = NoReply
              \/ /\ status[t] = 200 /\ detail[t] = ""
                 /\ reply[t] = AloneReply(t)
    /\ \A t, u \in Tasks :
          (pc[t] = "done" /\ pc[u] = "done" /\ data[t] = data[u]
              /\ stages[t] = stages[u] /\ events[t] = events[u]
              /\ response[t] = response[u]) =>
                (status[t] = status[u] /\ reply[t] = reply[u]
                    /\ detail[t] = detail[u])

\* C17 witness: two requests with the same message both ended with the
\* canned reply after failures with different messages.
C17_Witness ==
    /\ pc["t1"] = "done" /\ pc["t2"] = "done"
    /\ data["t1"] = data["t2"] /\ stages["t1"] = stages["t2"]
    /\ Entered("t1", "CANNED_REPLY")
    /\ exc_msg["t1"] = "backend unavailable"
    /\ exc_msg["t2"] = "403 API key key-1 rejected"
    /\ reply["t1"] = reply["t2"]

\* C18: when the stream raised after at least one fragment had been
\* accumulated, the reply is what the fallback responder produces for the
\* message and nothing of the accumulation.
C18_PartialDiscarded ==
    \A t \in Tasks :
        (pc[t] = "done" /\ Entered(t, "FAILED") /\ JoinTexts(events[t]) # "") =>
            /\ status[t] = 200
            /\ fb_message[t] = data[t].message
            /\ reply[t] = FallbackOutput(t)
            /\ reply[t] \in {PyStr("We sell mugs."), PyStr(GreetingText),
                             PyStr(TemplateOf(data[t].message.s))}
            /\ reply[t] # PyStr(JoinTexts(events[t]))

\* C18 witness: the stream raised after "Hello, " and "world!" and the
\* secondary backend's text was sent.
C18_Witness ==
    \E t \in Tasks :
        /\ pc[t] = "done" /\ Entered(t, "FAILED")
        /\ events[t] = <<TextEvent(PyStr("Hello, ")), TextEvent(PyStr("world!"))>>
        /\ reply[t] = PyStr("We sell mugs.")

\* C14: BackendAvailability is set at process initialisation and no step of
\* /process-whatsapp-message, /test-agent, /debug/app, /debug/bridge or the
\* fallback responder changes agent_available or root_agent, a primary
\* invocation that raises included: the flag holds what initialisation
\* resolved, so a failed attempt leaves the primary enabled.
C14_AvailabilityFrozen ==
    /\ [](agent_available = (boot.import = "ok"))
    /\ [][agent_available' = agent_available /\ root_agent' = root_agent]_vars

\* C14 witness: a message whose primary attempt raised has been answered, a
\* /test-agent call has failed, and the primary is still available.
C14_Witness ==
    /\ \E t \in Tasks : /\ pc[t] = "done"
                        /\ Entered(t, "PRIMARY_ATTEMPT")
                        /\ Entered(t, "FALLBACK_ATTEMPT")
    /\ ops.pc = "done"
    /\ ops.result.endpoint = "/test-agent"
    /\ "error" \in DOMAIN ops.result
    /\ agent_available
    /\ root_agent = "agent"

BridgeAnswered == ops.pc = "done" /\ ops.result.endpoint = "/debug/bridge"

\* C15 as stated: every successful (2xx) response of the bridge yields
\* bridge_status "connected" with the bridge's JSON body.
C15_SuccessIsConnected ==
    (/\ BridgeAnswered
     /\ ops.probe.kind = "response"
     /\ ops.probe.status_code \in {PyInt("200"), PyInt("204")})
        => /\ ops.result.bridge_status = "connected"
           /\ ops.result.bridge_response = ops.probe.json

\* C15 amended: /debug/bridge answers every outcome of the probe and echoes
\* bridge_url; bridge_status is "disconnected" exactly for a connection
\* error, "connected" with the JSON body exactly for a response of status 200
\* whose body is JSON, and "error" otherwise; a response of another status c
\* (another 2xx included) is reported with c and the response text.
C15_BridgeProbe ==
    /\ (ops.pc = "idle" /\ running = NoTask) => ENABLED DebugBridge
    /\ BridgeAnswered =>
         /\ ops.result.bridge_url = BridgeUrl
         /\ ops.result.bridge_status \in {"connected", "error", "disconnected"}
         /\ ops.result.bridge_status = "disconnected"
               <=> ops.probe.kind = "ConnectionError"
         /\ ops.result.bridge_status = "connected"
               <=> /\ ops.probe.kind = "response"
                   /\ ops.probe.status_code = PyInt("200")
                   /\ ops.probe.json # NoJson
         /\ ops.result.bridge_status = "connected"
               => ops.result.bridge_response = ops.probe.json
         /\ (ops.probe.kind = "response" /\ ops.probe.status_code # PyInt("200"))
               => /\ ops.result.error
                        = "Bridge returned status " \o ops.probe.status_code.s
                  /\ ops.result.response_text = ops.probe.text

\* C15 witness: the bridge answered 204 and /debug/bridge reported an error
\* for the unset default URL.
C15_Witness ==
    /\ BridgeAnswered
    /\ ops.probe.kind = "response"
    /\ ops.probe.status_code = PyInt("204")
    /\ ops.result.bridge_status = "error"
    /\ ops.result.bridge_url = "http://localhost:3001"

\* C16: module initialisation resolves the flag and runs to completion in
\* both cases: once the import has succeeded or failed with ImportError the
\* module body does not end in an uncaught exception, and a finished
\* initialisation has bound agent_available, root_agent, logger and app with
\* the flag true exactly when the import succeeded.
C16_InitialisationCompletes ==
    /\ boot.import \in {"ok", "ImportError"} => boot.pc # "crashed"
    /\ boot.pc = "ready" =>
         /\ boot.bound = ModuleNames
         /\ agent_available = (boot.import = "ok")
         /\ root_agent = IF agent_available THEN "agent" ELSE "None"

====
